---- MODULE Spec2Model ----
(***************************************************************************)
(* Model of the SpatialLM3D backend: the notation converter                *)
(* (utils/precompute_results.py) and the pre-computed scene store served   *)
(* by main.py.                                                             *)
(*                                                                         *)
(* Text is modelled as a sequence of lexical tokens (TLA+ strings).  The   *)
(* tokenisation is the one the regular expressions of the converter see:   *)
(* a maximal run of characters of [\d.-] is one token, every occurrence of *)
(* a literal the code searches for ("Wall(", ",", ")", "=", ".ply",        *)
(* "_results", ...) is a token of its own, and " " is a whitespace token.  *)
(* A line is a sequence of tokens, a text a sequence of lines.             *)
(* Floats are fixed-point numbers in hundredths (2.5 is 250).              *)
(***************************************************************************)
EXTENDS Integers, Sequences, FiniteSets, TLC

VARIABLES
    input,       \* the notation text handed to convert_to_json
    result,      \* what convert_to_json returned or raised for input
    main_pc,     \* position of the conversion step (main)
    main_out,    \* scene id the conversion step writes to
    main_prev,   \* what the output file held when main opened it, while it writes
    dir_exists,  \* whether the mock_data directory exists
    files,       \* mock_data directory: file name -> content on disk
    resp         \* response of the request that has just been served

vars == <<input, result, main_pc, main_out, main_prev, dir_exists, files, resp>>

(***************************************************************************)
(* Bounds                                                                  *)
(***************************************************************************)
MaxLines == 3        \* lines of a text handed to convert_to_json alone
MaxMainLines == 2    \* lines of a text handed to the conversion step
MaxFiles == 2        \* files in the mock_data directory

(***************************************************************************)
(* Generic string helpers                                                  *)
(***************************************************************************)
Range(s) == {s[i] : i \in 1..Len(s)}

\* the values of a function
Range0(f) == {f[x] : x \in DOMAIN f}

\* Python's None, where a record or a name is expected
None == [none |-> TRUE]

NoName == <<>>

\* number of leading tokens of s, from position i on, that belong to set
RECURSIVE RunLen(_, _, _)
RunLen(s, i, set) ==
    IF i <= Len(s) /\ s[i] \in set THEN 1 + RunLen(s, i + 1, set) ELSE 0

\* str.strip(): whitespace removed at both ends
RECURSIVE RStrip(_)
RStrip(s) ==
    IF s # <<>> /\ s[Len(s)] = " " THEN RStrip(SubSeq(s, 1, Len(s) - 1)) ELSE s

LStrip(s) == SubSeq(s, RunLen(s, 1, {" "}) + 1, Len(s))

Strip(s) == RStrip(LStrip(s))

\* str.strip() that forgets the right end (mutant)
StripLeftOnly(s) == LStrip(s)

\* s.split(sep, 1)[0]: the part before the first sep
BeforeFirst(s, sep) == SubSeq(s, 1, RunLen(s, 1, Range(s) \ {sep}))

\* str.startswith(prefix), prefix one token
StartsWith(s, prefix) == s # <<>> /\ s[1] = prefix

\* str.endswith(suffix), suffix one token
EndsWith(s, suffix) == s # <<>> /\ s[Len(s)] = suffix

\* str.replace(old, ''), old one token: every occurrence is removed
Replace(s, old) == SelectSeq(s, LAMBDA t : t # old)

(***************************************************************************)
(* Numbers                                                                 *)
(***************************************************************************)
\* tokens made of characters of [\d.-]
NumTokens == {"0", "1", "5", "2.5", "1.2.3"}

\* float(token), in hundredths; float() raises ValueError outside this domain
FloatTable == [t \in {"0", "1", "5", "2.5"} |->
                 CASE t = "0" -> 0 [] t = "1" -> 100 [] t = "5" -> 500 [] t = "2.5" -> 250]

IsFloat(t) == t \in DOMAIN FloatTable

(***************************************************************************)
(* Regular expressions of the record parsers                               *)
(* pattern elements: "NUM+" is ([\d.-]+), "NOTCOMMA+" is ([^,]+),          *)
(* "WS*" is \s*, any other element is a literal                            *)
(***************************************************************************)
NumArgs(n) == [i \in 1..(3 * n) |->
                 IF i % 3 = 1 THEN "," ELSE IF i % 3 = 2 THEN "WS*" ELSE "NUM+"]

BboxPattern == <<"Bbox(", "NOTCOMMA+">> \o NumArgs(7) \o <<")">>
WallPattern == <<"Wall(", "NUM+">> \o NumArgs(6) \o <<")">>
DoorPattern == <<"Door(", "NOTCOMMA+">> \o NumArgs(5) \o <<")">>
WindowPattern == <<"Window(", "NOTCOMMA+">> \o NumArgs(5) \o <<")">>

NoMatch == [ok |-> FALSE, groups |-> <<>>]

\* match pattern elements j.. against the tokens of line from position i;
\* groups are the captured token sequences in order
RECURSIVE MatchAt(_, _, _, _)
MatchAt(line, i, pat, j) ==
    IF j > Len(pat) THEN [ok |-> TRUE, groups |-> <<>>]
    ELSE IF pat[j] = "WS*"
         THEN MatchAt(line, i + RunLen(line, i, {" "}), pat, j + 1)
    ELSE IF pat[j] = "NUM+"
         THEN IF i <= Len(line) /\ line[i] \in NumTokens
              THEN LET r == MatchAt(line, i + 1, pat, j + 1)
                   IN  [ok |-> r.ok, groups |-> <<(<<line[i]>>)>> \o r.groups]
              ELSE NoMatch
    ELSE IF pat[j] = "NOTCOMMA+"
         THEN LET k == RunLen(line, i, Range(line) \ {","})
              IN  IF k = 0 THEN NoMatch
                  ELSE LET r == MatchAt(line, i + k, pat, j + 1)
                       IN  [ok |-> r.ok,
                            groups |-> <<SubSeq(line, i, i + k - 1)>> \o r.groups]
    ELSE IF i <= Len(line) /\ line[i] = pat[j]
         THEN MatchAt(line, i + 1, pat, j + 1)
         ELSE NoMatch

\* re.search(pattern, line): the leftmost match
Search(pat, line) ==
    LET starts == {i \in 1..Len(line) : MatchAt(line, i, pat, 1).ok}
    IN  IF starts = {} THEN NoMatch
        ELSE MatchAt(line, CHOOSE i \in starts : \A k \in starts : i <= k, pat, 1)

(***************************************************************************)
(* Record parsers                                                          *)
(***************************************************************************)
ValueError == [ok |-> FALSE, err |-> "ValueError"]

Parsed(rec) == [ok |-> TRUE, rec |-> rec]

\* [float(match.group(i)) for i in range(from, to + 1)] raises?
BadFloat(m, from, to) == \E i \in from..to : ~IsFloat(m.groups[i][1])

Float(m, i) == FloatTable[m.groups[i][1]]

parse_bbox_line(line, bbox_id) ==
    LET m == Search(BboxPattern, line)
    IN  IF ~m.ok THEN ValueError
        ELSE IF BadFloat(m, 2, 8) THEN ValueError
        ELSE Parsed([id |-> bbox_id,
                     object_class |-> Strip(m.groups[1]),
                     position_x |-> Float(m, 2),
                     position_y |-> Float(m, 3),
                     position_z |-> Float(m, 4),
                     rotation_z |-> Float(m, 5),
                     scale_x |-> Float(m, 6),
                     scale_y |-> Float(m, 7),
                     scale_z |-> Float(m, 8),
                     confidence |-> 95])

parse_wall_line(line, wall_id) ==
    LET m == Search(WallPattern, line)
    IN  IF ~m.ok THEN ValueError
        ELSE IF BadFloat(m, 1, 7) THEN ValueError
        ELSE Parsed([id |-> wall_id,
                     start_x |-> Float(m, 1),
                     start_y |-> Float(m, 2),
                     start_z |-> Float(m, 3),
                     end_x |-> Float(m, 4),
                     end_y |-> Float(m, 5),
                     end_z |-> Float(m, 6),
                     height |-> Float(m, 7)])

\* parse_door_line that keeps the trailing blanks of the wall reference (mutant)
parse_door_line_untrimmed(line, door_id) ==
    LET m == Search(DoorPattern, line)
    IN  IF ~m.ok THEN ValueError
        ELSE IF BadFloat(m, 2, 6) THEN ValueError
        ELSE Parsed([id |-> door_id,
                     wall_id |-> StripLeftOnly(m.groups[1]),
                     position_x |-> Float(m, 2),
                     position_y |-> Float(m, 3),
                     position_z |-> Float(m, 4),
                     width |-> Float(m, 5),
                     height |-> Float(m, 6)])

parse_door_line(line, door_id) ==
    LET m == Search(DoorPattern, line)
    IN  IF ~m.ok THEN ValueError
        ELSE IF BadFloat(m, 2, 6) THEN ValueError
        ELSE Parsed([id |-> door_id,
                     wall_id |-> Strip(m.groups[1]),
                     position_x |-> Float(m, 2),
                     position_y |-> Float(m, 3),
                     position_z |-> Float(m, 4),
                     width |-> Float(m, 5),
                     height |-> Float(m, 6)])

parse_window_line(line, window_id) ==
    LET m == Search(WindowPattern, line)
    IN  IF ~m.ok THEN ValueError
        ELSE IF BadFloat(m, 2, 6) THEN ValueError
        ELSE Parsed([id |-> window_id,
                     wall_id |-> Strip(m.groups[1]),
                     position_x |-> Float(m, 2),
                     position_y |-> Float(m, 3),
                     position_z |-> Float(m, 4),
                     width |-> Float(m, 5),
                     height |-> Float(m, 6)])

(***************************************************************************)
(* convert_to_json                                                         *)
(***************************************************************************)
EmptyDoc == [walls |-> <<>>, doors |-> <<>>, windows |-> <<>>, objects |-> <<>>]

\* list.append(asdict(record)) put at the wrong end (mutant)
ListPrepend(list, rec) == <<rec>> \o list

\* list.append(asdict(record))
ListAppend(list, rec) == Append(list, rec)

\* the loop over the lines of the file, from line i on, acc the four lists
RECURSIVE ConvertFrom(_, _, _)
ConvertFrom(text, i, acc) ==
    IF i > Len(text) THEN [ok |-> TRUE, doc |-> acc]
    ELSE
    LET line == Strip(text[i]) IN
    IF line = <<>> THEN ConvertFrom(text, i + 1, acc)
    ELSE IF "=" \notin Range(line) THEN ConvertFrom(text, i + 1, acc)
    ELSE
    LET var_name == Strip(BeforeFirst(line, "=")) IN
    IF StartsWith(var_name, "bbox_")
    THEN LET obj == parse_bbox_line(line, var_name)
         IN  IF ~obj.ok THEN obj
             ELSE ConvertFrom(text, i + 1,
                      [acc EXCEPT !.objects = ListAppend(@, obj.rec)])
    ELSE IF StartsWith(var_name, "wall_")
    THEN LET wall == parse_wall_line(line, var_name)
         IN  IF ~wall.ok THEN wall
             ELSE ConvertFrom(text, i + 1,
                      [acc EXCEPT !.walls = ListAppend(@, wall.rec)])
    ELSE IF StartsWith(var_name, "door_")
    THEN LET door == parse_door_line(line, var_name)
         IN  IF ~door.ok THEN door
             ELSE ConvertFrom(text, i + 1,
                      [acc EXCEPT !.doors = ListAppend(@, door.rec)])
    ELSE IF StartsWith(var_name, "window_")
    THEN LET window == parse_window_line(line, var_name)
         IN  IF ~window.ok THEN window
             ELSE ConvertFrom(text, i + 1,
                      [acc EXCEPT !.windows = ListAppend(@, window.rec)])
    ELSE ConvertFrom(text, i + 1, acc)

convert_to_json(text) == ConvertFrom(text, 1, EmptyDoc)

(***************************************************************************)
(* Input lines                                                             *)
(***************************************************************************)
\* args joined by ", " as the upstream producer prints them
RECURSIVE JoinArgs(_)
JoinArgs(args) ==
    IF args = <<>> THEN <<>>
    ELSE IF Len(args) = 1 THEN args[1]
    ELSE args[1] \o <<",", " ">> \o JoinArgs(Tail(args))

Call(ctor, args) == <<ctor>> \o JoinArgs(args) \o <<")">>

Assign(prefix, n, ctor, args) == <<prefix, n, "=">> \o Call(ctor, args)

Nums(s) == [i \in 1..Len(s) |-> <<s[i]>>]

WallArgsA == Nums(<<"0", "0", "0", "5", "0", "0", "2.5">>)
WallArgsB == Nums(<<"5", "0", "0", "5", "5", "0", "2.5">>)
OpeningArgs == Nums(<<"1", "0", "0", "1", "2.5">>)
BboxArgs == Nums(<<"1", "1", "0", "0", "1", "1", "1">>)

LinePool ==
    { Assign("wall_", "0", "Wall(", WallArgsA),
      Assign("wall_", "1", "Wall(", WallArgsA),
      Assign("wall_", "0", "Wall(", WallArgsB),
      Assign("door_", "0", "Door(", <<(<<"wall_", "0">>)>> \o OpeningArgs),
      Assign("door_", "1", "Door(", <<(<<" ", "wall_", "5", " ">>)>> \o OpeningArgs),
      Assign("window_", "0", "Window(", <<(<<"wall_", "1">>)>> \o OpeningArgs),
      Assign("bbox_", "0", "Bbox(", <<(<<"sofa">>)>> \o BboxArgs),
      <<" ">>,
      <<"note", " ">> \o Call("Wall(", WallArgsA),
      Assign("roof_", "0", "Wall(", WallArgsA),
      Assign("wall_", "2", "Wall(", Nums(<<"0", "0">>)),
      Assign("wall_", "2", "Wall(", Nums(<<"0", "0", "0", "5", "0", "0", "1.2.3">>)),
      <<"wall_", "3", "=", "Big">> \o Call("Wall(", WallArgsA),
      Assign("bbox_", "1", "Bbox(", <<(<<"sofa">>)>> \o BboxArgs) \o <<" ", "extra">> }

TextsOver(pool, n) == UNION {[1..k -> pool] : k \in 0..n}

Texts == TextsOver(LinePool, MaxLines)

NoResult == [ok |-> FALSE, err |-> "not run"]

(***************************************************************************)
(* Specification of the conversion alone: convert_to_json applied to a     *)
(* text                                                                    *)
(***************************************************************************)
InitConvert ==
    /\ input \in Texts
    /\ result = NoResult
    /\ main_pc = "idle"
    /\ main_out = NoName
    /\ main_prev = None
    /\ dir_exists = FALSE
    /\ files = <<>>
    /\ resp = None

Convert ==
    /\ result = NoResult
    /\ result' = convert_to_json(input)
    /\ UNCHANGED <<input, main_pc, main_out, main_prev, dir_exists, files, resp>>

NextConvert == Convert

SpecConvert == InitConvert /\ [][NextConvert]_vars

(***************************************************************************)
(* The scene store: the mock_data directory of main.py                     *)
(***************************************************************************)
\* scene ids and upload names used by the requests and the conversion step
SceneIds == {<<"a">>, <<"a", ".ply">>, <<"a", "_results">>}

FileNames == SceneIds \cup {s \o <<".ply">> : s \in SceneIds}

\* f"{scene_id}_results.json"
ResultsName(scene_id) == scene_id \o <<"_results", ".json">>

\* Path.stem: the name without its last suffix
Stem(name) ==
    IF Len(name) > 1 /\ name[Len(name)] \in {".json", ".ply"}
    THEN SubSeq(name, 1, Len(name) - 1)
    ELSE name

\* glob("*_results.json")
GlobResults(dir) ==
    {n \in DOMAIN dir :
        Len(n) >= 2 /\ n[Len(n)] = ".json" /\ n[Len(n) - 1] = "_results"}

\* the list returned has one element per file, in directory order: it is
\* modelled as the function from the file to the id reported for it
list_available_scenes ==
    IF ~dir_exists THEN <<>>
    ELSE [f \in GlobResults(files) |-> Replace(Stem(f), "_results")]

\* json.dump writes the document piecewise through a buffer: the opening,
\* one piece per record, the closing
Size(doc) ==
    2 + Len(doc.walls) + Len(doc.doors) + Len(doc.windows) + Len(doc.objects)

\* a file on disk: the first len pieces of the serialisation of doc
FileOf(doc, len) == [doc |-> doc, len |-> len]

Complete(file) == file.len = Size(file.doc)

\* data.get(key, [])
Get(data, key) == IF key \in DOMAIN data THEN data[key] ELSE <<>>

\* pydantic models: construction from a dict raises unless every field
\* without a default is a key of the dict; other keys are ignored
IsPoint(p) == {"x", "y", "z"} \subseteq DOMAIN p

ValidWall(w) ==
    /\ {"id", "startPoint", "endPoint", "height"} \subseteq DOMAIN w
    /\ IsPoint(w.startPoint) /\ IsPoint(w.endPoint)

ValidOpening(d) ==
    /\ {"id", "wallId", "position", "width", "height"} \subseteq DOMAIN d
    /\ IsPoint(d.position)

ValidBoundingBox(o) ==
    /\ {"id", "objectClass", "position", "rotation", "scale"} \subseteq DOMAIN o
    /\ IsPoint(o.position) /\ IsPoint(o.scale)

Point3D(p) == [x |-> p.x, y |-> p.y, z |-> p.z]

Wall(w) == [id |-> w.id, startPoint |-> Point3D(w.startPoint),
            endPoint |-> Point3D(w.endPoint), height |-> w.height]

Opening(d) == [id |-> d.id, wallId |-> d.wallId, position |-> Point3D(d.position),
               width |-> d.width, height |-> d.height]

BoundingBox(o) ==
    [id |-> o.id, objectClass |-> o.objectClass, position |-> Point3D(o.position),
     rotation |-> o.rotation, scale |-> Point3D(o.scale),
     confidence |-> IF "confidence" \in DOMAIN o THEN o.confidence ELSE 100]

\* [Wall(**w) for w in data.get('walls', [])] and its three siblings
Walls(data) == [k \in 1..Len(Get(data, "walls")) |-> Wall(Get(data, "walls")[k])]

Doors(data) == [k \in 1..Len(Get(data, "doors")) |-> Opening(Get(data, "doors")[k])]

Windows(data) ==
    [k \in 1..Len(Get(data, "windows")) |-> Opening(Get(data, "windows")[k])]

Objects(data) ==
    [k \in 1..Len(Get(data, "objects")) |-> BoundingBox(Get(data, "objects")[k])]

\* no constructor raises
ValidData(data) ==
    /\ \A k \in 1..Len(Get(data, "walls")) : ValidWall(Get(data, "walls")[k])
    /\ \A k \in 1..Len(Get(data, "doors")) : ValidOpening(Get(data, "doors")[k])
    /\ \A k \in 1..Len(Get(data, "windows")) : ValidOpening(Get(data, "windows")[k])
    /\ \A k \in 1..Len(Get(data, "objects")) :
          ValidBoundingBox(Get(data, "objects")[k])

\* the path load_precomputed_results looks at
JsonPath(filename) == ResultsName(Replace(filename, ".ply"))

\* the try block of load_precomputed_results: None when json.load raises on
\* a file that is not a complete document or a model constructor raises
LoadFile(file) ==
    IF ~Complete(file) THEN None
    ELSE
    LET data == file.doc IN
    IF ValidData(data)
    THEN [walls |-> Walls(data), doors |-> Doors(data),
          windows |-> Windows(data), objects |-> Objects(data)]
    ELSE None

\* the scene, or None when the file does not exist or cannot be loaded
load_precomputed_results(filename) ==
    LET json_path == JsonPath(filename)
    IN  IF json_path \notin DOMAIN files THEN None
        ELSE LoadFile(files[json_path])

\* the placeholder scene of analyze_scene_file
FallbackScene ==
    [walls |-> <<[id |-> <<"wall_", "0">>,
                  startPoint |-> [x |-> 0, y |-> 0, z |-> 0],
                  endPoint |-> [x |-> 500, y |-> 0, z |-> 0],
                  height |-> 250]>>,
     doors |-> <<>>,
     windows |-> <<>>,
     objects |-> <<[id |-> <<"bbox_", "0">>,
                    objectClass |-> <<"unknown">>,
                    position |-> [x |-> 250, y |-> 200, z |-> 50],
                    rotation |-> 0,
                    scale |-> [x |-> 100, y |-> 100, z |-> 100],
                    confidence |-> 50]>>]

Response(op, arg, status, scene, available, json_path) ==
    [op |-> op, arg |-> arg, status |-> status, scene |-> scene,
     available |-> available, json_path |-> json_path]

\* GET /api/v1/precomputed/{scene_id}
get_precomputed_result(scene_id) ==
    LET filename == scene_id \o <<".ply">>
        scene == load_precomputed_results(filename)
    IN  /\ resp' = IF scene = None
                   THEN Response("get", scene_id, 404, None,
                                 list_available_scenes, JsonPath(filename))
                   ELSE Response("get", scene_id, 200, scene, <<>>,
                                 JsonPath(filename))
        /\ UNCHANGED <<input, result, main_pc, main_out, main_prev,
                       dir_exists, files>>

\* POST /api/v1/analyze/file
analyze_scene_file(filename) ==
    /\ resp' = IF ~EndsWith(filename, ".ply")
               THEN Response("analyze", filename, 400, None, <<>>, NoName)
               ELSE LET scene == load_precomputed_results(filename)
                    IN  Response("analyze", filename, 200,
                                 IF scene = None THEN FallbackScene ELSE scene,
                                 <<>>, JsonPath(filename))
    /\ UNCHANGED <<input, result, main_pc, main_out, main_prev,
                   dir_exists, files>>

(***************************************************************************)
(* The conversion step: main of precompute_results.py, run with            *)
(* --output mock_data/<scene id>_results.json                              *)
(***************************************************************************)
MainLinePool ==
    { Assign("wall_", "0", "Wall(", WallArgsA),
      Assign("wall_", "2", "Wall(", Nums(<<"0", "0">>)),
      Assign("wall_", "2", "Wall(", Nums(<<"0", "0", "0", "5", "0", "0", "1.2.3">>)) }

MainInputs == TextsOver(MainLinePool, MaxMainLines)

\* convert_to_json(input_path) for every input of the step; @@ makes the
\* table an explicit function, evaluated once
Converted == [text \in MainInputs |-> convert_to_json(text)] @@ <<>>

MainIdle == main_pc \in {"idle", "done", "failed", "exit1"}

Put(dir, name, file) ==
    [n \in DOMAIN dir \cup {name} |-> IF n = name THEN file ELSE dir[n]]

\* the directory has room for the output file
Room(scene_id) ==
    \/ ResultsName(scene_id) \in DOMAIN files
    \/ Cardinality(DOMAIN files) < MaxFiles

\* --input names no file: the step reports it and returns 1
MainNoInput ==
    /\ MainIdle
    /\ main_pc' = "exit1"
    /\ input' = <<>>
    /\ result' = NoResult
    /\ main_out' = NoName
    /\ resp' = None
    /\ UNCHANGED <<main_prev, dir_exists, files>>

\* main that opens the output file before it converts (mutant)
MainStartOpenFirst(text, scene_id) ==
    /\ MainIdle
    /\ Room(scene_id)
    /\ dir_exists' = TRUE
    /\ input' = text
    /\ result' = Converted[text]
    /\ main_out' = scene_id
    /\ main_pc' = IF result'.ok THEN "converted" ELSE "failed"
    /\ files' = Put(files, ResultsName(scene_id), FileOf(EmptyDoc, 0))
    /\ resp' = None
    /\ UNCHANGED main_prev

\* mkdir of the output directory, then convert_to_json; an exception of
\* the conversion ends the step
MainStart(text, scene_id) ==
    /\ MainIdle
    /\ Room(scene_id)
    /\ dir_exists' = TRUE
    /\ input' = text
    /\ result' = Converted[text]
    /\ main_out' = scene_id
    /\ main_pc' = IF result'.ok THEN "converted" ELSE "failed"
    /\ resp' = None
    /\ UNCHANGED <<main_prev, files>>

\* open(output_path, 'w'): the file is created or truncated
MainOpen ==
    /\ main_pc = "converted"
    /\ main_prev' = IF ResultsName(main_out) \in DOMAIN files
                    THEN files[ResultsName(main_out)] ELSE None
    /\ files' = Put(files, ResultsName(main_out), FileOf(result.doc, 0))
    /\ main_pc' = "writing"
    /\ resp' = None
    /\ UNCHANGED <<input, result, main_out, dir_exists>>

\* the buffer of json.dump is flushed to the file while pieces remain
MainFlush ==
    /\ main_pc = "writing"
    /\ files[ResultsName(main_out)].len + 1 < Size(result.doc)
    /\ files' = [files EXCEPT ![ResultsName(main_out)].len = @ + 1]
    /\ resp' = None
    /\ UNCHANGED <<input, result, main_pc, main_out, main_prev, dir_exists>>

\* leaving the with block closes the file: everything is on disk
MainClose ==
    /\ main_pc = "writing"
    /\ files' = [files EXCEPT ![ResultsName(main_out)].len = Size(result.doc)]
    /\ main_pc' = "done"
    /\ main_prev' = None
    /\ resp' = None
    /\ UNCHANGED <<input, result, main_out, dir_exists>>

(***************************************************************************)
(* Specification of the store: the conversion step runs while requests     *)
(* are served.  resp is the response of the request served last; it is     *)
(* dropped at the next step of the conversion step, so that a response is  *)
(* always compared with the store it was served from.                      *)
(***************************************************************************)
Init ==
    /\ input = <<>>
    /\ result = NoResult
    /\ main_pc = "idle"
    /\ main_out = NoName
    /\ main_prev = None
    /\ dir_exists \in BOOLEAN
    /\ files = <<>>
    /\ resp = None

\* the steps of the conversion step
NextMain ==
    \/ MainNoInput
    \/ \E text \in MainInputs, scene_id \in SceneIds : MainStart(text, scene_id)
    \/ MainOpen
    \/ MainFlush
    \/ MainClose

\* the requests
NextServe ==
    \/ \E scene_id \in SceneIds : get_precomputed_result(scene_id)
    \/ \E filename \in FileNames : analyze_scene_file(filename)

Next == NextMain \/ NextServe

\* the conversion step alone, no request being served
SpecMain == Init /\ [][NextMain]_vars

Spec == Init /\ [][Next]_vars

(***************************************************************************)
(* Vocabulary of the claims about the conversion                           *)
(***************************************************************************)
RecordPrefixes == {"bbox_", "wall_", "door_", "window_"}

NonBlank(line) == Strip(line) # <<>>

\* the identifier left of the first '=' of a line, trimmed
LineId(line) == Strip(BeforeFirst(Strip(line), "="))

\* the record kind a line announces by its identifier prefix, "none" if it has
\* no '=' or no known prefix
LineKind(line) ==
    IF ~NonBlank(line) \/ "=" \notin Range(line) \/ LineId(line) = <<>> THEN "none"
    ELSE IF LineId(line)[1] \in RecordPrefixes THEN LineId(line)[1]
    ELSE "none"

ListOf(doc, kind) ==
    CASE kind = "wall_" -> doc.walls
      [] kind = "door_" -> doc.doors
      [] kind = "window_" -> doc.windows
      [] kind = "bbox_" -> doc.objects

IdsOf(list) == [k \in 1..Len(list) |-> list[k].id]

\* identifiers of the lines of a kind, in text order
IdsOfKind(text, kind) ==
    LET lines == SelectSeq(text, LAMBDA l : LineKind(l) = kind)
    IN  [k \in 1..Len(lines) |-> LineId(lines[k])]

Without(text, i) == SubSeq(text, 1, i - 1) \o SubSeq(text, i + 1, Len(text))

\* the wall reference as written in a Door or Window line: the text between
\* the constructor's parenthesis and the first comma after it, trimmed
WallRef(line) ==
    LET c == RunLen(line, 1, Range(line) \ {"Door(", "Window("})
    IN  Strip(BeforeFirst(SubSeq(line, c + 2, Len(line)), ","))

\* line i is a well-formed Door or Window whose wall reference names no Wall
\* among the lines before it
Unresolved(text, i) ==
    /\ LineKind(text[i]) \in {"door_", "window_"}
    /\ convert_to_json(<<text[i]>>).ok
    /\ WallRef(text[i]) \notin Range(IdsOfKind(SubSeq(text, 1, i - 1), "wall_"))

\* C5: each of the four output lists holds the records of its kind in the
\* order of their lines in the source text, whatever their ids and whatever
\* lines of other kinds stand between them
C5_EncounterOrder ==
    result.ok =>
        \A kind \in RecordPrefixes :
            IdsOf(ListOf(result.doc, kind)) = IdsOfKind(input, kind)

\* wall_1 before wall_0 with a door between them: listed wall_1, wall_0
C5_Witness ==
    /\ result.ok
    /\ Len(input) = 3
    /\ LineKind(input[2]) = "door_"
    /\ IdsOf(result.doc.walls) = <<(<<"wall_", "1">>), (<<"wall_", "0">>)>>
    /\ Len(result.doc.doors) = 1

\* C6 (as claimed): no scene is produced in which two records of one kind
\* share an id; an input with such a pair is rejected
C6_NoDuplicateIds ==
    result.ok =>
        \A kind \in RecordPrefixes :
            LET list == ListOf(result.doc, kind)
            IN  \A i, j \in 1..Len(list) : list[i].id = list[j].id => i = j

\* C7 (as claimed): a conversion that does not fail has taken exactly one
\* record from every non-blank line
C7_NoLineSkipped ==
    result.ok =>
        Len(result.doc.walls) + Len(result.doc.doors)
          + Len(result.doc.windows) + Len(result.doc.objects)
        = Len(SelectSeq(input, NonBlank))

\* C8: a Door or Window whose wall reference names no Wall seen so far does
\* not change whether the conversion succeeds, is kept with its reference
\* equal to the trimmed source token, and leaves the other lists as they
\* are without it
C8_DanglingKept ==
    result # NoResult =>
        \A i \in 1..Len(input) :
            Unresolved(input, i) =>
                LET rest == convert_to_json(Without(input, i))
                    kind == LineKind(input[i])
                IN  /\ result.ok = rest.ok
                    /\ result.ok =>
                         /\ \A other \in RecordPrefixes \ {kind} :
                              ListOf(result.doc, other) = ListOf(rest.doc, other)
                         /\ Len(ListOf(result.doc, kind))
                              = Len(ListOf(rest.doc, kind)) + 1
                         /\ \E k \in 1..Len(ListOf(result.doc, kind)) :
                              /\ ListOf(result.doc, kind)[k].id = LineId(input[i])
                              /\ ListOf(result.doc, kind)[k].wall_id
                                   = WallRef(input[i])

\* a door whose wall comes later, a door whose wall is absent and written
\* with blanks around it, and the wall: all three are in the output
C8_Witness ==
    /\ result.ok
    /\ Len(input) = 3
    /\ Unresolved(input, 1) /\ WallRef(input[1]) = <<"wall_", "0">>
    /\ Unresolved(input, 2) /\ WallRef(input[2]) = <<"wall_", "5">>
    /\ input[2][5] = " "
    /\ IdsOf(result.doc.walls) = <<(<<"wall_", "0">>)>>
    /\ Len(result.doc.doors) = 2
    /\ result.doc.doors[2].wall_id = <<"wall_", "5">>

(***************************************************************************)
(* Vocabulary of the claims about the store                                *)
(***************************************************************************)
Served == resp # None /\ resp.status # 400

\* ids that have a file in the store
StoredIds == {s \in SceneIds : ResultsName(s) \in DOMAIN files}

\* the scene id of a request: the path parameter, or the upload name
\* without its one trailing extension
RequestedId == IF resp.op = "get" THEN resp.arg ELSE Stem(resp.arg)

\* the outcome of a lookup: the scene, or None for NotFound
Outcome ==
    IF resp.op = "get" /\ resp.status = 404 THEN None
    ELSE IF resp.op = "analyze" /\ resp.scene = FallbackScene THEN None
    ELSE resp.scene

\* the SceneStructure of a conversion output: the same records in the same
\* order under the field names of the served model
WallOf(r) ==
    [id |-> r.id,
     startPoint |-> [x |-> r.start_x, y |-> r.start_y, z |-> r.start_z],
     endPoint |-> [x |-> r.end_x, y |-> r.end_y, z |-> r.end_z],
     height |-> r.height]

OpeningOf(r) ==
    [id |-> r.id, wallId |-> r.wall_id,
     position |-> [x |-> r.position_x, y |-> r.position_y, z |-> r.position_z],
     width |-> r.width, height |-> r.height]

BoundingBoxOf(r) ==
    [id |-> r.id, objectClass |-> r.object_class,
     position |-> [x |-> r.position_x, y |-> r.position_y, z |-> r.position_z],
     rotation |-> r.rotation_z,
     scale |-> [x |-> r.scale_x, y |-> r.scale_y, z |-> r.scale_z],
     confidence |-> r.confidence]

SceneOf(doc) ==
    [walls |-> [k \in 1..Len(doc.walls) |-> WallOf(doc.walls[k])],
     doors |-> [k \in 1..Len(doc.doors) |-> OpeningOf(doc.doors[k])],
     windows |-> [k \in 1..Len(doc.windows) |-> OpeningOf(doc.windows[k])],
     objects |-> [k \in 1..Len(doc.objects) |-> BoundingBoxOf(doc.objects[k])]]

\* C1 (as claimed): a lookup served while the conversion step writes the
\* entry it looks at answers as for the complete previous entry (NotFound
\* if there was none) or as for the complete new entry
C1_AtomicWrite ==
    (Served /\ main_pc = "writing" /\ resp.json_path = ResultsName(main_out)) =>
        Outcome \in {IF main_prev = None THEN None ELSE LoadFile(main_prev),
                     LoadFile(FileOf(result.doc, Size(result.doc)))}

\* C2 (as claimed): once the conversion step has stored its output under a
\* scene id, a lookup that reads that file returns the converted records
C2_StoredSceneServed ==
    (Served /\ resp.op = "get" /\ main_pc = "done"
        /\ resp.json_path = ResultsName(main_out)) =>
        /\ resp.status = 200
        /\ resp.scene = SceneOf(result.doc)

\* C3 (as claimed): with no write in progress, a lookup that finds no file
\* ends in NotFound, and the ids a NotFound reports are exactly the ids
\* that have a file
C3_NotFoundListsStoredIds ==
    (Served /\ resp.op = "get" /\ main_pc # "writing") =>
        /\ resp.json_path \notin DOMAIN files => resp.status = 404
        /\ resp.status = 404 => Range0(resp.available) = StoredIds

\* C4 (as claimed): with no write in progress, NotFound and the placeholder
\* scene are answered only when no file is stored where the lookup looks
C4_NotFoundOnlyWhenAbsent ==
    (Served /\ Outcome = None /\ main_pc # "writing") =>
        resp.json_path \notin DOMAIN files

\* C10 (as claimed): a lookup that finds a scene has read the entry stored
\* under exactly the requested id
C10_ExactId ==
    (Served /\ Outcome # None) =>
        /\ ResultsName(RequestedId) \in DOMAIN files
        /\ Outcome = LoadFile(files[ResultsName(RequestedId)])

\* some line of the text is rejected by the parser of its kind
HasFailingLine(text) == \E i \in 1..Len(text) : ~convert_to_json(<<text[i]>>).ok

\* C9: when a line of the input fails to parse, convert_to_json returns no
\* scene and the conversion step ends there, and a step that ends or leaves
\* the conversion step failed does not change the store
C9_AllOrNothing ==
    /\ []((result # NoResult /\ HasFailingLine(input)) =>
            (~result.ok /\ main_pc = "failed"))
    /\ [][main_pc' = "failed" => files' = files]_vars

\* a wall line followed by a line that fails, converted towards an id whose
\* entry exists: the step has failed and the entry is complete as before
C9_Witness ==
    /\ main_pc = "failed"
    /\ Len(input) = 2
    /\ convert_to_json(<<input[1]>>).ok
    /\ ~convert_to_json(<<input[2]>>).ok
    /\ ~result.ok
    /\ ResultsName(main_out) \in DOMAIN files
    /\ Complete(files[ResultsName(main_out)])
    /\ Len(files[ResultsName(main_out)].doc.walls) = 1

\* the constructor and the number of arguments of a kind
Ctor(kind) ==
    CASE kind = "bbox_" -> "Bbox(" [] kind = "wall_" -> "Wall("
      [] kind = "door_" -> "Door(" [] kind = "window_" -> "Window("

ArgCount(kind) ==
    CASE kind = "bbox_" -> 8 [] kind = "wall_" -> 7
      [] kind = "door_" -> 6 [] kind = "window_" -> 6

\* the expression right of the first '=' of a line, trimmed
Expression(line) ==
    LET l == Strip(line)
    IN  Strip(SubSeq(l, Len(BeforeFirst(l, "=")) + 2, Len(l)))

Count(s, t) == Len(SelectSeq(s, LAMBDA x : x = t))

\* the expression is the constructor call of the line's kind and nothing
\* else: it starts with the constructor, ends with the one closing
\* parenthesis and has the kind's number of arguments
ExactCall(line) ==
    LET e == Expression(line)
    IN  /\ e # <<>>
        /\ e[1] = Ctor(LineKind(line))
        /\ e[Len(e)] = ")"
        /\ Count(e, ")") = 1
        /\ Count(e, ",") = ArgCount(LineKind(line)) - 1

\* C11 (as claimed): a line yields a record only when the expression right
\* of its first '=' is exactly the constructor call of its kind with that
\* kind's number of arguments; a conversion that does not fail has met no
\* other record line
C11_ExactConstructorCall ==
    result.ok =>
        \A i \in 1..Len(input) :
            LineKind(input[i]) # "none" => ExactCall(input[i])

====
